---------------------------- MODULE Spec2Model ----------------------------
(***************************************************************************)
(* rdu: concurrent computation of the space usage of a directory tree.     *)
(* Model of src/src/main.rs: calc_space_usage (the driving loop over the   *)
(* two JoinSets meta_js and dir_js), handle_err and meta_with_path, run    *)
(* against a small file system whose stat and read_dir answers are         *)
(* computed from an inode table.                                           *)
(***************************************************************************)
EXTENDS Integers, Sequences, FiniteSets, TLC

(***************************************************************************)
(* Bounds of the model.                                                    *)
(***************************************************************************)
\* deepest chain of nested directories in the "nest" family of trees
MaxDepth == 2
\* largest number of directory entries naming one inode in the "hard" family
MaxLinks == 3
\* number of I/O faults the environment may inject during one traversal
MaxFaults == 1

(***************************************************************************)
(* The file system: an inode table.  A directory's ents are <<name, id>>   *)
(* pairs, a symlink's target is the id of the inode it names.  dev and ino *)
(* are what stat reports (std::os::unix::fs::MetadataExt).                 *)
(***************************************************************************)
Dir(i, n, e)     == [type |-> "dir", len |-> 0, dev |-> 1, ino |-> i, nlink |-> n,
                     ents |-> e, target |-> 0]
File(d, i, n, l) == [type |-> "file", len |-> l, dev |-> d, ino |-> i, nlink |-> n,
                     ents |-> {}, target |-> 0]
Symlink(i, l, t) == [type |-> "symlink", len |-> l, dev |-> 1, ino |-> i, nlink |-> 1,
                     ents |-> {}, target |-> t]

\* the inode the traversal starts from
StartInode == 1

\* "nest", m: a chain of m directories nested below the start directory, a
\* 1-byte file in the start directory and a file of m + 1 bytes in the
\* innermost one; directories have link count 2
NestNodes(m) ==
    [id \in {10 + i : i \in 1..m} \cup {20, 21} \cup {StartInode} |->
        IF id = StartInode THEN Dir(StartInode, 2, {<<1, 20>>, <<2, 11>>})
        ELSE IF id = 20 THEN File(1, 20, 1, 1)
        ELSE IF id = 21 THEN File(1, 21, 1, m + 1)
        ELSE Dir(id, 2, IF id - 10 < m THEN {<<2, id + 1>>} ELSE {<<1, 21>>})]

\* "hard", k: k entries of the start directory name one 7-byte inode (link
\* count k)
HardNodes(k) ==
    [id \in {StartInode, 2} |->
        IF id = StartInode
        THEN Dir(StartInode, 1, {<<j, 2>> : j \in 1..k})
        ELSE File(1, 2, k, 7)]

\* "empty": an empty start directory
EmptyNodes == [id \in {StartInode} |-> Dir(StartInode, 2, {})]

\* "wide": three sibling plain files of 1, 3 and 5 bytes
WideNodes ==
    [id \in {StartInode, 2, 3, 4} |->
        IF id = StartInode
        THEN Dir(StartInode, 1, {<<1, 2>>, <<2, 3>>, <<3, 4>>})
        ELSE File(1, id, 1, 2 * id - 3)]

\* "dev": two files with the same inode number on two devices, each with a
\* second link outside the tree, of 3 and 5 bytes
DevNodes ==
    [id \in {StartInode, 2, 3} |->
        IF id = StartInode
        THEN Dir(StartInode, 2, {<<1, 2>>, <<2, 3>>})
        ELSE IF id = 2 THEN File(1, 7, 2, 3) ELSE File(2, 7, 2, 5)]

\* "sym": a symlink to a 100-byte file and a symlink to a directory holding a
\* 10-byte file (both targets lie outside the tree), next to a 1-byte file
SymNodes ==
    [id \in {StartInode, 2, 3, 4, 5, 6, 7} |->
        CASE id = StartInode -> Dir(StartInode, 2, {<<1, 2>>, <<2, 3>>, <<3, 4>>})
          [] id = 2 -> Symlink(2, 4, 5)
          [] id = 3 -> Symlink(3, 4, 6)
          [] id = 4 -> File(1, 4, 1, 1)
          [] id = 5 -> File(1, 5, 1, 100)
          [] id = 6 -> Dir(6, 2, {<<1, 7>>})
          [] OTHER  -> File(1, 7, 1, 10)]

\* "file": the start path is itself a regular file of 9 bytes
FileNodes == [id \in {StartInode} |-> File(1, StartInode, 1, 9)]

Trees ==
    {<<"nest", m>> : m \in 1..MaxDepth} \cup {<<"hard", k>> : k \in 2..MaxLinks}
        \cup {<<"empty", 0>>, <<"wide", 0>>, <<"dev", 0>>, <<"sym", 0>>, <<"file", 0>>}

NodesOf ==
    [t \in Trees |->
        CASE t[1] = "nest"  -> NestNodes(t[2])
          [] t[1] = "hard"  -> HardNodes(t[2])
          [] t[1] = "empty" -> EmptyNodes
          [] t[1] = "wide"  -> WideNodes
          [] t[1] = "dev"   -> DevNodes
          [] t[1] = "sym"   -> SymNodes
          [] OTHER          -> FileNodes]

\* the inode table of a tree
Nodes(t) == NodesOf[t]

(***************************************************************************)
(* Path resolution as the OS does it.  A path is the sequence of names     *)
(* below the start path; 0 stands for "no such inode".                     *)
(***************************************************************************)
RECURSIVE FollowLinks(_, _, _)
\* the inode reached from id by following symlinks, at most fuel of them
FollowLinks(nodes, id, fuel) ==
    IF id = 0 \/ id \notin DOMAIN nodes THEN 0
    ELSE IF nodes[id].type # "symlink" THEN id
    ELSE IF fuel = 0 THEN 0
    ELSE FollowLinks(nodes, nodes[id].target, fuel - 1)

Lookup(nodes, id, name) ==
    LET d == FollowLinks(nodes, id, Cardinality(DOMAIN nodes))
    IN  IF d = 0 \/ nodes[d].type # "dir" THEN 0
        ELSE IF \E e \in nodes[d].ents : e[1] = name
        THEN (CHOOSE e \in nodes[d].ents : e[1] = name)[2]
        ELSE 0

RECURSIVE Walk(_, _, _, _)
Walk(nodes, id, path, i) ==
    IF i > Len(path) \/ id = 0 THEN id
    ELSE Walk(nodes, Lookup(nodes, id, path[i]), path, i + 1)

\* the inode a path names, its last component not followed
Resolve(nodes, path) == Walk(nodes, StartInode, path, 1)

\* the (file_type, len, dev, ino, nlink) of an inode: std::fs::Metadata
MetaOf(n) == [type |-> n.type, len |-> n.len, dev |-> n.dev, ino |-> n.ino, nlink |-> n.nlink]
NoMeta    == [type |-> "none", len |-> 0, dev |-> 0, ino |-> 0, nlink |-> 0]

\* std::io::Error as the OS call builds it: the error kind and nothing else
IoError(k) == [kind |-> k]

\* io::Result<Metadata>, and the state of a task that has not completed
Ok(m)     == [st |-> "ok", meta |-> m, err |-> IoError("none")]
Err(k)    == [st |-> "err", meta |-> NoMeta, err |-> IoError(k)]
Pending   == [st |-> "pending", meta |-> NoMeta, err |-> IoError("none")]

\* fs::symlink_metadata(&path): the stat that does not follow the last link
symlink_metadata(nodes, path) ==
    LET id == Resolve(nodes, path)
    IN  IF id = 0 THEN Err("NotFound") ELSE Ok(MetaOf(nodes[id]))

\* fs::metadata(&path): the stat that follows links
metadata(nodes, path) ==
    LET id == FollowLinks(nodes, Resolve(nodes, path), Cardinality(DOMAIN nodes))
    IN  IF id = 0 THEN Err("NotFound") ELSE Ok(MetaOf(nodes[id]))

\* fs::read_dir(path) and the next_entry loop: the paths of the children
read_dir(nodes, path) ==
    LET id == FollowLinks(nodes, Resolve(nodes, path), Cardinality(DOMAIN nodes))
    IN  IF id = 0 THEN [st |-> "err", err |-> IoError("NotFound"), kids |-> {}]
        ELSE IF nodes[id].type # "dir"
        THEN [st |-> "err", err |-> IoError("Other"), kids |-> {}]
        ELSE [st |-> "ok", err |-> IoError("none"),
              kids |-> {Append(path, e[1]) : e \in nodes[id].ents}]

\* the error kinds the environment injects: the two handle_err tells apart
\* and one of all the others
FaultKinds == {"NotFound", "OutOfMemory", "Other"}


(***************************************************************************)
(* The state of calc_space_usage.                                          *)
(***************************************************************************)
VARIABLES
    tree,      \* the file system the traversal runs on
    opts,      \* Opts: ignore_hardlinks, follow_symlinks
    meta_js,   \* the JoinSet of metadata tasks: [path, follow, res]
    dir_js,    \* the JoinSet of expansion tasks: [path, st, kids, err]
    mutex,     \* who holds the tokio Mutex around meta_js: "free", "main", "dir"
    hashmap,   \* the HashSet of (dev, ino) pairs
    size,      \* the running total
    pc,        \* where the driving loop stands
    frame,     \* the path, error and return point of the call the loop is in
    result,    \* what calc_space_usage returned
    faults,    \* number of faults injected so far
    trace      \* the outcomes the loop routed, in order: [src, path, disp]

vars == <<tree, opts, meta_js, dir_js, mutex, hashmap, size, pc, frame, result,
          faults, trace>>

NoFrame  == [path |-> <<>>, err |-> IoError("none"), follow |-> FALSE, ret |-> "none"]
NoResult == [tag |-> "none", total |-> 0, err |-> IoError("none")]

\* the task meta_with_path(path) (follow = FALSE) or the link-following task
\* of the symlink arm (follow = TRUE), as spawned
MetaTask(path, follow) == [path |-> path, follow |-> follow, res |-> Pending]
\* the expansion task of the directory arm, as spawned
DirTask(path) == [path |-> path, st |-> "listing", kids |-> {}, err |-> IoError("none")]

\* after meta_js.lock().await.spawn(meta_with_path(path)) and let mut size = 0
Init ==
    /\ tree \in Trees
    /\ opts \in [ignore_hardlinks : BOOLEAN, follow_symlinks : BOOLEAN]
    /\ meta_js = {MetaTask(<<>>, FALSE)}
    /\ dir_js = {}
    /\ mutex = "free"
    /\ hashmap = {}
    /\ size = 0
    /\ pc = "drain"
    /\ frame = NoFrame
    /\ result = NoResult
    /\ faults = 0
    /\ trace = <<>>

(***************************************************************************)
(* The decisions of the code, one operator each.                           *)
(***************************************************************************)
\* faulty variants of ErrClass: NotFound taken for fatal; every other error
\* swallowed
ErrClassNotFoundFatal(kind) ==
    CASE kind = "OutOfMemory" -> "retry"
      [] OTHER                -> "fatal"
ErrClassSwallow(kind) ==
    CASE kind = "OutOfMemory" -> "retry"
      [] OTHER                -> "ignore"

\* handle_err's match on err.kind()
ErrClass(kind) ==
    CASE kind = "NotFound"    -> "ignore"
      [] kind = "OutOfMemory" -> "retry"
      [] OTHER                -> "fatal"

\* faulty variants of HardlinkCheck: the link count compared with 2; the pair
\* reduced to the inode number
HardlinkCheckLinks2(o, m, seen) ==
    IF ~o.ignore_hardlinks /\ m.nlink > 2
    THEN [skip |-> <<m.dev, m.ino>> \in seen, seen |-> seen \cup {<<m.dev, m.ino>>}]
    ELSE [skip |-> FALSE, seen |-> seen]
HardlinkCheckInoOnly(o, m, seen) ==
    IF ~o.ignore_hardlinks /\ m.nlink > 1
    THEN [skip |-> <<1, m.ino>> \in seen, seen |-> seen \cup {<<1, m.ino>>}]
    ELSE [skip |-> FALSE, seen |-> seen]

\* !opts.ignore_hardlinks && meta.nlink() > 1 && !hashmap.insert((dev, ino)):
\* whether the outcome is skipped, and the set after the (short-circuited) insert
HardlinkCheck(o, m, seen) ==
    IF ~o.ignore_hardlinks /\ m.nlink > 1
    THEN [skip |-> <<m.dev, m.ino>> \in seen, seen |-> seen \cup {<<m.dev, m.ino>>}]
    ELSE [skip |-> FALSE, seen |-> seen]

\* faulty variant of Arm: a symlink is followed whatever the option says
ArmFollowAlways(o, m) ==
    IF m.type = "file" THEN "file"
    ELSE IF m.type = "dir" THEN "dir"
    ELSE IF m.type = "symlink" THEN "follow"
    ELSE "skip"

\* the if / else if chain on file_type
Arm(o, m) ==
    IF m.type = "file" THEN "file"
    ELSE IF m.type = "dir" THEN "dir"
    ELSE IF o.follow_symlinks /\ m.type = "symlink" THEN "follow"
    ELSE "skip"

\* faulty variant of AddLen: the total is overwritten
AddLenOverwrite(total, m) == m.len

\* size += meta.len()
AddLen(total, m) == total + m.len

\* the value of calc_space_usage at a break, and at a ? that propagates err
ReturnOk(total) == [tag |-> "Ok", total |-> total, err |-> IoError("none")]
ReturnErr(err)  == [tag |-> "Err", total |-> 0, err |-> err]

\* faulty variant of DropGuard: the guard is never released
DropGuardLeak(m) == m

\* the scrutinee's MutexGuard is dropped when the match is left, also by return
DropGuard(m) == IF m = "main" THEN "free" ELSE m

(***************************************************************************)
(* The tasks.                                                              *)
(***************************************************************************)
Running == pc # "done"

Complete(t, r) == meta_js' = (meta_js \ {t}) \cup {[t EXCEPT !.res = r]}

\* a metadata task runs its stat and completes
MetaComplete(t) ==
    /\ Running
    /\ t \in meta_js /\ t.res.st = "pending"
    /\ Complete(t, IF t.follow THEN metadata(Nodes(tree), t.path)
                   ELSE symlink_metadata(Nodes(tree), t.path))
    /\ UNCHANGED <<tree, opts, dir_js, mutex, hashmap, size, pc, frame, result,
                   faults, trace>>

\* a metadata task's stat fails with an error of the environment
MetaFault(t) ==
    /\ Running
    /\ faults < MaxFaults
    /\ t \in meta_js /\ t.res.st = "pending"
    /\ \E k \in FaultKinds : Complete(t, Err(k))
    /\ faults' = faults + 1
    /\ UNCHANGED <<tree, opts, dir_js, mutex, hashmap, size, pc, frame, result, trace>>

DirUpdate(t, u) == dir_js' = (dir_js \ {t}) \cup {u}

\* an expansion task lists its directory: read_dir, then every next_entry
DirList(t) ==
    /\ Running
    /\ t \in dir_js /\ t.st = "listing"
    /\ LET r == read_dir(Nodes(tree), t.path)
       IN  DirUpdate(t, IF r.st = "ok" THEN [t EXCEPT !.st = "locking", !.kids = r.kids]
                        ELSE [t EXCEPT !.st = "err", !.err = r.err])
    /\ UNCHANGED <<tree, opts, meta_js, mutex, hashmap, size, pc, frame, result,
                   faults, trace>>

\* the listing fails with an error of the environment
DirFault(t) ==
    /\ Running
    /\ faults < MaxFaults
    /\ t \in dir_js /\ t.st = "listing"
    /\ \E k \in FaultKinds : DirUpdate(t, [t EXCEPT !.st = "err", !.err = IoError(k)])
    /\ faults' = faults + 1
    /\ UNCHANGED <<tree, opts, meta_js, mutex, hashmap, size, pc, frame, result, trace>>

\* let mut mutex = meta_js.lock().await
DirLock(t) ==
    /\ Running
    /\ t \in dir_js /\ t.st = "locking"
    /\ mutex = "free"
    /\ mutex' = "dir"
    /\ DirUpdate(t, [t EXCEPT !.st = "spawning"])
    /\ UNCHANGED <<tree, opts, meta_js, hashmap, size, pc, frame, result, faults, trace>>

\* faulty variant of DirSubmit: the guard is not dropped
DirSubmitKeepLock(t) ==
    /\ Running
    /\ t \in dir_js /\ t.st = "spawning"
    /\ meta_js' = meta_js \cup {MetaTask(k, FALSE) : k \in t.kids}
    /\ DirUpdate(t, [t EXCEPT !.st = "ok"])
    /\ UNCHANGED <<tree, opts, mutex, hashmap, size, pc, frame, result, faults, trace>>

\* for fut in vec { mutex.spawn(fut) }; drop(mutex); Ok(())
DirSubmit(t) ==
    /\ Running
    /\ t \in dir_js /\ t.st = "spawning"
    /\ meta_js' = meta_js \cup {MetaTask(k, FALSE) : k \in t.kids}
    /\ mutex' = "free"
    /\ DirUpdate(t, [t EXCEPT !.st = "ok"])
    /\ UNCHANGED <<tree, opts, hashmap, size, pc, frame, result, faults, trace>>

(***************************************************************************)
(* The driving loop of calc_space_usage.                                   *)
(***************************************************************************)
Completed(t) == t.st \in {"ok", "err"}

\* what the loop does with a joined expansion task: Ok(()) is a no-op, an
\* error goes to handle_err, which returns to ret
RouteDir(t, ret) ==
    IF t.st = "ok"
    THEN /\ pc' = ret
         /\ UNCHANGED <<frame, trace>>
    ELSE /\ pc' = "handle_err"
         /\ frame' = [path |-> t.path, err |-> t.err, follow |-> FALSE, ret |-> ret]
         /\ trace' = Append(trace, [src |-> "dir", path |-> t.path, disp |-> t.err.kind])

\* while let Some(value) = poll_fn(|ctx| dir_js.poll_join_next(ctx)).await:
\* the future is Pending while dir_js holds tasks and none has completed, and
\* resolves to None once dir_js is empty
DrainDir ==
    /\ pc = "drain"
    /\ dir_js = {} \/ \E t \in dir_js : Completed(t)
    /\ IF dir_js = {}
       THEN /\ pc' = "check"
            /\ UNCHANGED <<dir_js, frame, trace>>
       ELSE \E t \in dir_js :
            /\ Completed(t)
            /\ dir_js' = dir_js \ {t}
            /\ RouteDir(t, "drain")
    /\ UNCHANGED <<tree, opts, meta_js, mutex, hashmap, size, result, faults>>

\* faulty variant of CheckEmpty: the condition negated
CheckEmptyInverted ==
    /\ pc = "check"
    /\ mutex = "free"
    /\ pc' = IF meta_js # {} THEN "join_dir" ELSE "lock_meta"
    /\ UNCHANGED <<tree, opts, meta_js, dir_js, mutex, hashmap, size, frame, result,
                   faults, trace>>

\* if meta_js.lock().await.is_empty(): the guard lives for the condition only
CheckEmpty ==
    /\ pc = "check"
    /\ mutex = "free"
    /\ pc' = IF meta_js = {} THEN "join_dir" ELSE "lock_meta"
    /\ UNCHANGED <<tree, opts, meta_js, dir_js, mutex, hashmap, size, frame, result,
                   faults, trace>>

\* match dir_js.join_next().await
JoinDir ==
    /\ pc = "join_dir"
    /\ dir_js = {} \/ \E t \in dir_js : Completed(t)
    /\ IF dir_js = {}
       THEN /\ pc' = "done"
            /\ result' = ReturnOk(size)
            /\ UNCHANGED <<dir_js, frame, trace>>
       ELSE /\ \E t \in dir_js :
                 /\ Completed(t)
                 /\ dir_js' = dir_js \ {t}
                 /\ RouteDir(t, "lock_meta")
            /\ UNCHANGED result
    /\ UNCHANGED <<tree, opts, meta_js, mutex, hashmap, size, faults>>

\* match meta_js.lock().await ... : the guard is a temporary of the scrutinee
\* and lives until the match is left
LockMeta ==
    /\ pc = "lock_meta"
    /\ mutex = "free"
    /\ mutex' = "main"
    /\ pc' = "join_meta"
    /\ UNCHANGED <<tree, opts, meta_js, dir_js, hashmap, size, frame, result, faults,
                   trace>>

\* the disposition of a successful outcome, for the trace
Disposition(skip, arm) ==
    IF skip THEN "deduped"
    ELSE CASE arm = "file"   -> "counted"
           [] arm = "dir"    -> "expanded"
           [] arm = "follow" -> "followed"
           [] OTHER          -> "skipped"

\* the arm Some(Ok((path, Ok(meta)))) of the match
RouteMeta(t) ==
    LET m   == t.res.meta
        hc  == HardlinkCheck(opts, m, hashmap)
        arm == Arm(opts, m)
    IN  /\ hashmap' = hc.seen
        /\ trace' = Append(trace, [src |-> "meta", path |-> t.path,
                                    disp |-> Disposition(hc.skip, arm)])
        /\ size' = IF ~hc.skip /\ arm = "file" THEN AddLen(size, m) ELSE size
        /\ dir_js' = IF ~hc.skip /\ arm = "dir" THEN dir_js \cup {DirTask(t.path)}
                     ELSE dir_js
        /\ IF ~hc.skip /\ arm = "follow"
           THEN /\ pc' = "spawn"
                /\ frame' = [path |-> t.path, err |-> IoError("none"), follow |-> TRUE,
                             ret |-> "end_match"]
           ELSE /\ pc' = "end_match"
                /\ UNCHANGED frame

\* ... .join_next().await { ... }: waits, the guard held, for a metadata task
\* to complete, and routes its outcome
JoinMeta ==
    /\ pc = "join_meta"
    /\ meta_js = {} \/ \E t \in meta_js : t.res.st # "pending"
    /\ IF meta_js = {}
       THEN /\ pc' = "done"
            /\ result' = ReturnOk(size)
            /\ mutex' = DropGuard(mutex)
            /\ UNCHANGED <<meta_js, dir_js, hashmap, size, frame, trace>>
       ELSE /\ \E t \in meta_js :
                 /\ t.res.st # "pending"
                 /\ meta_js' = meta_js \ {t}
                 /\ IF t.res.st = "err"
                    THEN /\ pc' = "handle_err"
                         /\ frame' = [path |-> t.path, err |-> t.res.err,
                                      follow |-> FALSE, ret |-> "end_match"]
                         /\ trace' = Append(trace, [src |-> "meta", path |-> t.path,
                                                    disp |-> t.res.err.kind])
                         /\ UNCHANGED <<dir_js, hashmap, size>>
                    ELSE RouteMeta(t)
            /\ UNCHANGED <<mutex, result>>
    /\ UNCHANGED <<tree, opts, faults>>

\* the end of the match statement (also reached by continue): the guard drops
EndMatch ==
    /\ pc = "end_match"
    /\ mutex' = DropGuard(mutex)
    /\ pc' = "drain"
    /\ UNCHANGED <<tree, opts, meta_js, dir_js, hashmap, size, frame, result, faults,
                   trace>>

\* handle_err(path, &meta_js, err).await?
handle_err ==
    /\ pc = "handle_err"
    /\ LET c == ErrClass(frame.err.kind)
       IN  CASE c = "ignore" -> /\ pc' = frame.ret
                                /\ UNCHANGED <<frame, result, mutex>>
             [] c = "retry"  -> /\ pc' = "spawn"
                                /\ frame' = [frame EXCEPT !.follow = FALSE]
                                /\ UNCHANGED <<result, mutex>>
             [] OTHER        -> /\ pc' = "done"
                                /\ result' = ReturnErr(frame.err)
                                /\ mutex' = DropGuard(mutex)
                                /\ UNCHANGED frame
    /\ UNCHANGED <<tree, opts, meta_js, dir_js, hashmap, size, faults, trace>>

\* meta_js.lock().await.spawn(...): of handle_err's retry and of the symlink
\* arm; the lock is taken for the statement
SpawnMeta ==
    /\ pc = "spawn"
    /\ mutex = "free"
    /\ meta_js' = meta_js \cup {MetaTask(frame.path, frame.follow)}
    /\ pc' = frame.ret
    /\ UNCHANGED <<tree, opts, dir_js, mutex, hashmap, size, frame, result, faults,
                   trace>>

Main == DrainDir \/ CheckEmpty \/ JoinDir \/ LockMeta \/ JoinMeta \/ EndMatch
            \/ handle_err \/ SpawnMeta

Tasks ==
    \/ \E t \in meta_js : MetaComplete(t) \/ MetaFault(t)
    \/ \E t \in dir_js : DirList(t) \/ DirFault(t) \/ DirLock(t) \/ DirSubmit(t)

Next ==
    \/ DrainDir
    \/ CheckEmpty
    \/ JoinDir
    \/ LockMeta
    \/ JoinMeta
    \/ EndMatch
    \/ handle_err
    \/ SpawnMeta
    \/ \E t \in meta_js : MetaComplete(t)
    \/ \E t \in meta_js : MetaFault(t)
    \/ \E t \in dir_js : DirList(t)
    \/ \E t \in dir_js : DirFault(t)
    \/ \E t \in dir_js : DirLock(t)
    \/ \E t \in dir_js : DirSubmit(t)

Spec == Init /\ [][Next]_vars

\* the runtime polls every ready task: the loop and the spawned tasks each
\* take their next step once it is possible
FairSpec == Spec /\ WF_vars(Main) /\ WF_vars(Tasks)

\* the traversals of the trees of directories and regular files with link
\* count 1, symlinks not followed
InitPlain ==
    /\ Init
    /\ \A id \in DOMAIN Nodes(tree) :
         Nodes(tree)[id].type = "dir"
             \/ (Nodes(tree)[id].type = "file" /\ Nodes(tree)[id].nlink = 1)
    /\ ~opts.follow_symlinks

\* a step is taken whenever one is possible: less than FairSpec assumes
FairPlainSpec == InitPlain /\ [][Next]_vars /\ WF_vars(Next)

TypeOK ==
    /\ mutex \in {"free", "main", "dir"}
    /\ pc \in {"drain", "check", "join_dir", "lock_meta", "join_meta", "end_match",
               "handle_err", "spawn", "done"}
    /\ size \in Nat
    /\ result.tag \in {"none", "Ok", "Err"}
    /\ (pc = "done") = (result.tag # "none")

(***************************************************************************)
(* What a traversal should find, computed from the tree alone.             *)
(***************************************************************************)
\* the metadata the loop ends up classifying for a path: the target's when
\* symlinks are followed
EffMeta(nodes, path, follow) ==
    IF follow THEN metadata(nodes, path).meta ELSE symlink_metadata(nodes, path).meta

RECURSIVE Reach(_, _, _, _)
\* the paths at and below path; fuel bounds the depth
Reach(nodes, path, follow, fuel) ==
    IF fuel = 0 \/ EffMeta(nodes, path, follow).type # "dir" THEN {path}
    ELSE {path} \cup UNION {Reach(nodes, k, follow, fuel - 1) :
                               k \in read_dir(nodes, path).kids}

TreePathsOf ==
    [t \in Trees |-> [follow \in BOOLEAN |->
        Reach(Nodes(t), <<>>, follow, Cardinality(DOMAIN Nodes(t)))]]

\* the paths a traversal of the tree should fetch
TreePaths(t, follow) == TreePathsOf[t][follow]

RECURSIVE SumLen(_, _, _)
\* the sum of the lengths of a set of paths
SumLen(nodes, S, follow) ==
    IF S = {} THEN 0
    ELSE LET p == CHOOSE q \in S : TRUE
         IN  EffMeta(nodes, p, follow).len + SumLen(nodes, S \ {p}, follow)

IsFile(nodes, p, follow) == EffMeta(nodes, p, follow).type = "file"
Key(nodes, p, follow) ==
    <<EffMeta(nodes, p, follow).dev, EffMeta(nodes, p, follow).ino>>
Linked(nodes, p, follow) == EffMeta(nodes, p, follow).nlink > 1

\* one path for each (dev, ino) pair among the paths of S
OnePerKey(nodes, S, follow) ==
    {p \in S : p = CHOOSE q \in S : Key(nodes, q, follow) = Key(nodes, p, follow)}

\* the total of a set of paths: every regular file once for each of its
\* paths, but a file with several links once for all of them unless
\* hard links are ignored
ExpectedTotalOf(t, S, o) ==
    LET nodes  == Nodes(t)
        f      == o.follow_symlinks
        files  == {p \in S : IsFile(nodes, p, f)}
        linked == {p \in files : Linked(nodes, p, f)}
    IN  IF o.ignore_hardlinks THEN SumLen(nodes, files, f)
        ELSE SumLen(nodes, files \ linked, f) + SumLen(nodes, OnePerKey(nodes, linked, f), f)

ExpectedTotals ==
    [t \in Trees |-> [o \in [ignore_hardlinks : BOOLEAN, follow_symlinks : BOOLEAN] |->
        ExpectedTotalOf(t, TreePaths(t, o.follow_symlinks), o)]]

ExpectedTotal(t, o) == ExpectedTotals[t][o]

\* a tree of directories and of regular files with link count 1 only
PlainTrees ==
    {t \in Trees : \A p \in TreePaths(t, FALSE) :
        LET m == symlink_metadata(Nodes(t), p).meta
        IN  m.type = "dir" \/ (m.type = "file" /\ m.nlink = 1)}

PlainTree(t) == t \in PlainTrees

\* the entries of the trace of a path, and how many have a disposition
Entries(p)      == {i \in 1..Len(trace) : trace[i].src = "meta" /\ trace[i].path = p}
Count(S, disps) == Cardinality({i \in 1..Len(trace) :
                       trace[i].src = "meta" /\ trace[i].path \in S /\ trace[i].disp \in disps})
Done == pc = "done"

(***************************************************************************)
(* C1  Sum correctness: on a tree of directories and regular files with    *)
(* link count 1, a traversal without I/O fault returns Ok(total), total    *)
(* the sum of the lengths of the regular files; an empty directory gives   *)
(* total = 0.                                                              *)
(***************************************************************************)
FileSum ==
    [t \in Trees |->
        SumLen(Nodes(t), {p \in TreePaths(t, FALSE) : IsFile(Nodes(t), p, FALSE)}, FALSE)]

\* C1: a fault-free traversal of a plain tree returns Ok(sum of the file lengths)
C1_SumCorrectness ==
    (Done /\ faults = 0 /\ PlainTree(tree)) =>
        /\ result = ReturnOk(FileSum[tree])
        /\ (tree[1] = "empty" => result.total = 0)

C1_Witness ==
    /\ Done /\ faults = 0
    /\ tree = <<"nest", MaxDepth>>
    /\ result.tag = "Ok" /\ result.total > MaxDepth

(***************************************************************************)
(* C2  Hard-link dedup: of the paths of regular files that share one       *)
(* (device, inode) pair with link count > 1, the first fetch that resolves *)
(* is counted and every later one skipped when ignore_hardlinks = false,   *)
(* and every one is counted when ignore_hardlinks = true; a fault-free     *)
(* traversal resolves all k of them.                                       *)
(***************************************************************************)
LinkGroupsOf ==
    [t \in Trees |->
        LET nodes == Nodes(t)
            files == {p \in TreePaths(t, FALSE) :
                         IsFile(nodes, p, FALSE) /\ Linked(nodes, p, FALSE)}
        IN  {G \in {{q \in files : Key(nodes, q, FALSE) = Key(nodes, p, FALSE)} : p \in files} :
                Cardinality(G) >= 2}]

\* the sets of two or more paths of the tree that name one linked file
LinkGroups(t) == LinkGroupsOf[t]

\* C2: a linked file is counted once for all its paths, or once for each when
\* hard links are ignored
C2_HardlinkDedup ==
    \A G \in LinkGroups(tree) :
        LET resolved == Count(G, {"counted", "deduped"})
            counted  == Count(G, {"counted"})
        IN  /\ opts.ignore_hardlinks => counted = resolved
            /\ ~opts.ignore_hardlinks =>
                 /\ counted = (IF resolved > 0 THEN 1 ELSE 0)
                 /\ resolved > 0 => \A p \in G : Key(Nodes(tree), p, FALSE) \in hashmap
                 /\ \A i, j \in 1..Len(trace) :
                      (i < j /\ trace[i].path \in G /\ trace[j].path \in G
                         /\ trace[i].disp = "counted") => trace[j].disp # "counted"
            /\ (Done /\ result.tag = "Ok" /\ faults = 0) =>
                 /\ resolved = Cardinality(G)
                 /\ result.total = (IF opts.ignore_hardlinks THEN 7 * Cardinality(G) ELSE 7)

C2_Witness ==
    /\ Done /\ faults = 0
    /\ tree = <<"hard", MaxLinks>>
    /\ ~opts.ignore_hardlinks
    /\ Count(TreePaths(tree, FALSE), {"deduped"}) = MaxLinks - 1
    /\ result.total = 7

(***************************************************************************)
(* C3  Symlink follow: with follow_symlinks = true the loop submits a      *)
(* link-following task for a path classified as a symlink, the target's    *)
(* metadata is processed as the original object's, and the traversal       *)
(* completes with the total that includes the target's bytes.              *)
(* Stated for the runs without I/O fault.                                  *)
(***************************************************************************)
C3_SymlinkFollow ==
    (opts.follow_symlinks /\ ~PlainTree(tree)) =>
        <>(faults > 0 \/ (Done /\ result = ReturnOk(ExpectedTotal(tree, opts))))

(***************************************************************************)
(* C4  Symlink skip: with follow_symlinks = false, a path whose            *)
(* non-following stat says symlink is dropped: it adds nothing to the      *)
(* total (the total is the sum of the counted paths, none of them a        *)
(* symlink) and no metadata or expansion task is submitted for it or below *)
(* it, whatever its target is.                                             *)
(***************************************************************************)
SymlinkPaths ==
    [t \in Trees |-> {p \in TreePaths(t, TRUE) :
                         symlink_metadata(Nodes(t), p).meta.type = "symlink"}]

IsSymlink(p) == p \in SymlinkPaths[tree]

RECURSIVE TraceSum(_)
\* the lengths of the paths the trace counted
TraceSum(i) ==
    IF i = 0 THEN 0
    ELSE TraceSum(i - 1) + (IF trace[i].disp = "counted"
                            THEN symlink_metadata(Nodes(tree), trace[i].path).meta.len
                            ELSE 0)

\* a path at or below a symlink other than the symlink's own first fetch
BelowSymlink(p) == \E n \in 1..Len(p) - 1 : IsSymlink(SubSeq(p, 1, n))

\* C4: with follow_symlinks = false a symlink adds nothing and submits nothing
C4_SymlinkSkip ==
    ~opts.follow_symlinks =>
        /\ \A i \in 1..Len(trace) :
             (trace[i].src = "meta" /\ IsSymlink(trace[i].path)
                 /\ trace[i].disp \notin FaultKinds) =>
                 /\ trace[i].disp = "skipped"
                 /\ Cardinality(Entries(trace[i].path)) = 1 \/ faults > 0
        /\ size = TraceSum(Len(trace))
        /\ \A t \in meta_js : ~t.follow /\ ~BelowSymlink(t.path)
        /\ \A t \in dir_js : ~IsSymlink(t.path) /\ ~BelowSymlink(t.path)
        /\ (pc = "spawn" => ~IsSymlink(frame.path) \/ faults > 0)
        /\ (Done /\ faults = 0 /\ tree[1] = "sym") => result = ReturnOk(1)

C4_Witness ==
    /\ Done /\ faults = 0
    /\ ~opts.follow_symlinks
    /\ tree[1] = "sym"
    /\ Count({<<1>>, <<2>>}, {"skipped"}) = 2
    /\ result = ReturnOk(1)

(***************************************************************************)
(* C5  Order independence: for a fixed tree and fixed options the total    *)
(* that a fault-free traversal returns is the same whatever the order in   *)
(* which the tasks complete: it is a function of the tree and the options. *)
(***************************************************************************)
C5_OrderIndependence ==
    (Done /\ result.tag = "Ok" /\ faults = 0) => result.total = ExpectedTotal(tree, opts)

\* a run that joined the third sibling before the first
C5_Witness ==
    /\ Done /\ result.tag = "Ok" /\ faults = 0
    /\ tree[1] = "wide"
    /\ \E i, j \in 1..Len(trace) : i < j /\ trace[i].path = <<3>> /\ trace[j].path = <<1>>

(***************************************************************************)
(* C6  Race tolerance: a metadata fetch that resolves with NotFound is     *)
(* dropped: handle_err returns to the loop, the path is neither counted    *)
(* nor submitted again, and a traversal whose only faults are such         *)
(* NotFound fetches returns Ok with the total of the paths that are left.  *)
(***************************************************************************)
NotFoundPaths == {trace[i].path : i \in {j \in 1..Len(trace) :
                     trace[j].src = "meta" /\ trace[j].disp = "NotFound"}}

\* the paths of the tree that are not at or below a path in S
Outside(S) ==
    {p \in TreePaths(tree, FALSE) : \A n \in 0..Len(p) : SubSeq(p, 1, n) \notin S}

\* C6: a NotFound fetch is dropped and the traversal returns the total of the rest
C6_RaceTolerance ==
    /\ \A i \in 1..Len(trace) : (trace[i].src = "meta" /\ trace[i].disp = "NotFound") =>
         /\ \A j \in i + 1..Len(trace) : trace[j].path # trace[i].path
         /\ \A t \in meta_js : t.path # trace[i].path
         /\ \A t \in dir_js : t.path # trace[i].path
         /\ pc = "spawn" => frame.path # trace[i].path
    /\ size = TraceSum(Len(trace))
    /\ (pc = "handle_err" /\ frame.err.kind = "NotFound") => result.tag = "none"
    /\ (Done /\ faults = Cardinality(NotFoundPaths)) =>
         result = ReturnOk(ExpectedTotalOf(tree, Outside(NotFoundPaths), opts))

\* a child of the start directory vanished, and the rest was counted
C6_Witness ==
    /\ Done /\ result.tag = "Ok" /\ result.total > 0
    /\ <<1>> \in NotFoundPaths
    /\ result.total < ExpectedTotal(tree, opts)

(***************************************************************************)
(* C7  Fatal errors are all-or-nothing: an outcome whose error is neither  *)
(* NotFound nor OutOfMemory is the last one the loop routes; the traversal *)
(* returns that error and no total, and size does not change after it.     *)
(***************************************************************************)
Fatal(i) == trace[i].disp \in FaultKinds \ {"NotFound", "OutOfMemory"}

\* C7: a fatal outcome is the last one routed; its error is returned, no total
C7_FatalAbort ==
    /\ \A i \in 1..Len(trace) : Fatal(i) =>
         /\ i = Len(trace)
         /\ pc \in {"handle_err", "done"}
         /\ frame.path = trace[i].path /\ frame.err = IoError(trace[i].disp)
         /\ Done => result = ReturnErr(IoError(trace[i].disp))
         /\ size = TraceSum(i)
    /\ result.tag = "Err" => (trace # <<>> /\ Fatal(Len(trace)) /\ result.total = 0)

\* a fatal error after a file had been counted: the partial total is not returned
C7_Witness ==
    /\ Done /\ result.tag = "Err"
    /\ size > 0
    /\ result.total = 0

(***************************************************************************)
(* C8  The error calc_space_usage returns carries the path whose fetch or  *)
(* expansion failed, together with the OS error.                           *)
(***************************************************************************)
C8_ErrorCarriesPath ==
    result.tag = "Err" =>
        /\ result.err.kind = frame.err.kind
        /\ "path" \in DOMAIN result.err
        /\ result.err.path = frame.path

(***************************************************************************)
(* C9  Termination: on a tree of nested directories and regular files,     *)
(* with follow_symlinks = false and every task completing, a traversal     *)
(* without I/O fault eventually returns the sum of all file sizes.         *)
(***************************************************************************)
C9_Termination ==
    (PlainTree(tree) /\ ~opts.follow_symlinks) =>
        <>(faults > 0 \/ (Done /\ result = ReturnOk(FileSum[tree])))

\* the deepest nest traversed to the end, every path fetched once
C9_Witness ==
    /\ Done /\ faults = 0
    /\ ~opts.follow_symlinks
    /\ tree = <<"nest", MaxDepth>>
    /\ Len(trace) = Cardinality(TreePaths(tree, FALSE))
    /\ meta_js = {} /\ dir_js = {}

(***************************************************************************)
(* C10  Every path that enters the metadata pool eventually gets exactly   *)
(* one terminal disposition (counted, expanded, skipped) or the traversal  *)
(* aborts; when the traversal returns Ok no submitted path is left         *)
(* undisposed and none has two dispositions.  Stated for the runs without  *)
(* I/O fault.                                                              *)
(***************************************************************************)
Terminal == {"counted", "expanded", "deduped", "skipped", "NotFound"}

\* C10: a fault-free traversal ends, every path with exactly one terminal
\* disposition
C10_OneDisposition ==
    <>(faults > 0 \/
         (Done /\ (result.tag = "Ok" =>
             \A p \in TreePaths(tree, opts.follow_symlinks) : Count({p}, Terminal) = 1)))

(***************************************************************************)
(* C11: the loop ends only when both pools are empty.                      *)
(***************************************************************************)
\* an expansion task that has not yet handed all its children to meta_js
Unsubmitted(t) == t.st \in {"listing", "locking", "spawning"}

\* C11: whenever calc_space_usage has returned Ok(total), meta_js holds no
\* task (pending or completed but not joined), dir_js holds no task, and so no
\* expansion task has children it has not yet submitted
C11_BothPoolsEmpty ==
    (Done /\ result.tag = "Ok") =>
        /\ meta_js = {}
        /\ dir_js = {}
        /\ ~\E t \in dir_js : Unsubmitted(t)
        /\ mutex = "free"

\* the deepest chain of directories was walked to its end, every directory
\* expanded, and the loop returned Ok with both pools empty
C11_Witness ==
    /\ Done /\ result.tag = "Ok"
    /\ tree = <<"nest", MaxDepth>>
    /\ Count(TreePaths(tree, FALSE), {"expanded"}) = MaxDepth + 1
    /\ meta_js = {} /\ dir_js = {}

(***************************************************************************)
(* C12: the retry of a metadata task that failed with OutOfMemory.         *)
(***************************************************************************)
\* the loop has joined a metadata task that failed with OutOfMemory and is in
\* the handle_err call of line 81
MetaRetryDue ==
    /\ pc = "handle_err"
    /\ frame.ret = "end_match"
    /\ frame.err.kind = "OutOfMemory"

\* the path of the frame is in meta_js again and the loop has gone on
Resubmitted ==
    /\ pc \notin {"handle_err", "spawn"}
    /\ \E t \in meta_js : t.path = frame.path /\ ~t.follow

\* C12: a metadata task that completed with OutOfMemory is resubmitted for
\* the same path and the loop goes on
C12_MetaRetry == MetaRetryDue ~> Resubmitted

(***************************************************************************)
(* C13: step 1 of the loop, the drain of dir_js.                           *)
(***************************************************************************)
\* the loop is at step 1 while expansion tasks are in flight and none of them
\* has completed
DrainNothingReady ==
    /\ pc = "drain"
    /\ dir_js # {}
    /\ \A t \in dir_js : ~Completed(t)

\* C13: step 1 never suspends: with expansion tasks in flight and none of
\* them completed, the loop can leave step 1 at once
C13_DrainNeverSuspends == DrainNothingReady => ENABLED DrainDir

(***************************************************************************)
(* C14: how long the loop holds the lock of meta_js.                       *)
(***************************************************************************)
\* the loop is suspended in meta_js.join_next().await: tasks are in the set
\* and none has completed
AwaitingMeta ==
    /\ pc = "join_meta"
    /\ meta_js # {}
    /\ \A t \in meta_js : t.res.st = "pending"

\* the loop is routing an outcome it joined from meta_js: in handle_err, or
\* about to submit the retried or the link-following task
RoutingMeta == pc \in {"handle_err", "spawn"} /\ frame.ret = "end_match"

\* C14: the loop does not hold the lock of meta_js while it is suspended
\* waiting for a metadata task, nor while it routes a joined metadata outcome
C14_LockScope == (AwaitingMeta \/ RoutingMeta) => mutex # "main"

(***************************************************************************)
(* C15: an expansion task submits its children as one batch.               *)
(***************************************************************************)
\* the children of a directory, as the tree holds them
ChildrenOf(p) == read_dir(Nodes(tree), p).kids

\* the tasks of meta_js for path p
TasksFor(p) == {u \in meta_js : u.path = p}

\* no child of p has been submitted or routed
NoChildSeen(p) ==
    \A k \in ChildrenOf(p) : TasksFor(k) = {} /\ Entries(k) = {}

\* C15: an expansion task holds the lock of meta_js only between taking it
\* (after the listing) and the end of its one batch of spawns; until then no
\* child is in meta_js, afterwards there is one metadata task per child, and
\* a task whose listing failed has enqueued no child
C15_BatchedSubmit ==
    /\ (mutex = "dir") = (\E t \in dir_js : t.st = "spawning")
    /\ \A t \in dir_js :
         /\ t.st \in {"listing", "locking", "spawning", "err"} => NoChildSeen(t.path)
         /\ t.st = "listing" => t.kids = {}
         /\ t.st \in {"locking", "spawning", "ok"} => t.kids = ChildrenOf(t.path)
         /\ t.st = "ok" =>
                \A k \in t.kids : /\ Cardinality(TasksFor(k)) = 1
                                  /\ \A u \in TasksFor(k) : ~u.follow
         /\ t.st = "err" => t.kids = {}

\* an expansion task has completed Ok after enqueuing a batch of at least two
\* children and has released the lock
C15_Witness ==
    /\ mutex = "free"
    /\ \E t \in dir_js :
         /\ t.st = "ok"
         /\ Cardinality(t.kids) >= 2
         /\ \A k \in t.kids : TasksFor(k) # {}

(***************************************************************************)
(* C16: every directory is expanded.                                       *)
(***************************************************************************)
\* the i-th routed outcome is a successful stat of a directory
DirOutcome(i) ==
    /\ trace[i].src = "meta"
    /\ trace[i].disp \notin FaultKinds
    /\ symlink_metadata(Nodes(tree), trace[i].path).meta.type = "dir"

\* C16: every successful metadata outcome of a directory spawns an expansion
\* task: a directory is never skipped by the hard-link check
C16_DirAlwaysExpanded ==
    \A i \in 1..Len(trace) : DirOutcome(i) => trace[i].disp = "expanded"

(***************************************************************************)
(* C17: what the hashmap of (dev, ino) pairs holds.                        *)
(***************************************************************************)
\* the (dev, ino) pairs of the regular files of the tree with link count > 1
LinkedFileKeys ==
    {<<Nodes(tree)[id].dev, Nodes(tree)[id].ino>> :
        id \in {j \in DOMAIN Nodes(tree) :
                   Nodes(tree)[j].type = "file" /\ Nodes(tree)[j].nlink > 1}}

\* C17: the hashmap stays empty when ignore_hardlinks is set, and holds
\* nothing but the (dev, ino) pairs of files with link count > 1
C17_SeenInodes ==
    /\ opts.ignore_hardlinks => hashmap = {}
    /\ hashmap \subseteq LinkedFileKeys

(***************************************************************************)
(* C18: the loop and its own guard.                                        *)
(***************************************************************************)
\* the loop is at a meta_js.lock().await (line 116 or 137) while the guard it
\* took at line 78 is alive: it waits for itself
SelfDeadlock == pc = "spawn" /\ mutex = "main"

\* C18: the loop never asks for the lock of meta_js while it holds the guard
\* it took to poll meta_js
C18_NoSelfDeadlock == ~SelfDeadlock

(***************************************************************************)
(* C19: the retry of an expansion that failed with OutOfMemory.            *)
(***************************************************************************)
\* the expansions the loop saw fail with OutOfMemory
ExpansionRetries ==
    {i \in 1..Len(trace) : trace[i].src = "dir" /\ trace[i].disp = "OutOfMemory"}

\* faults were injected, and every one of them was an expansion that failed
\* with OutOfMemory
OnlyExpansionRetries == faults > 0 /\ Cardinality(ExpansionRetries) = faults

\* C19: a traversal whose only faults are expansions failing with
\* OutOfMemory returns the total of the fault-free traversal
C19_ExpansionRetryLossless ==
    (Done /\ OnlyExpansionRetries) => result = ReturnOk(ExpectedTotal(tree, opts))

=============================================================================
